---- MODULE Spec2Model ----
(***************************************************************************)
(* A model of the H2VQE class of vqe_h2.py: the Hamiltonian coefficients,  *)
(* the analytical energy evaluation, the optimisation loop with its        *)
(* progress callback and trace, and the bond-length scan.                  *)
(*                                                                         *)
(* Real numbers are fixed-point integers counted in millionths             *)
(* (0.735 is 735000).  exp, cos and sin are computed by range reduction    *)
(* and Taylor series in that arithmetic.                                   *)
(***************************************************************************)
EXTENDS Integers, Sequences, FiniteSets, TLC

----------------------------------------------------------------------------
(* Fixed-point arithmetic                                                  *)

\* one, in millionths
Unit == 1000000

\* the square root of Unit: the radix the products are split at
Radix == 1000

Abs(a) == IF a < 0 THEN -a ELSE a

\* floor(a * b / Unit) for a, b >= 0, without leaving 32 bits
MulPos(a, b) ==
  LET a1 == a \div Radix
      a0 == a % Radix
      b1 == b \div Radix
      b0 == b % Radix
      t  == a1 * b0 + a0 * b1
  IN  a1 * b1 + (t \div Radix) + (((t % Radix) * Radix + a0 * b0) \div Unit)

\* the product of two fixed-point numbers, rounded towards zero
Sign(a) == IF a < 0 THEN -1 ELSE 1

Mul(a, b) == Sign(a) * Sign(b) * MulPos(Abs(a), Abs(b))

\* the number of terms the series are summed to
SeriesTerms == 12

\* sum of term, term*x/(n+1), term*x*x/((n+1)(n+2)), ... for `left` terms
RECURSIVE ExpSeries(_, _, _, _)
ExpSeries(x, term, n, left) ==
  IF left = 0 THEN 0
  ELSE term + ExpSeries(x, Mul(term, x) \div (n + 1), n + 1, left - 1)

\* e^(-1) * e^(-1) * ... (k factors) * acc
RECURSIVE ExpScale(_, _)
ExpScale(k, acc) ==
  IF k = 0 THEN acc ELSE ExpScale(k - 1, Mul(acc, ExpSeries(-Unit, Unit, 0, SeriesTerms)))

\* np.exp(x) for x <= 0 (the only arguments the Hamiltonian has)
exp(x) ==
  LET y == -x
      k == y \div Unit
      f == y % Unit
  IN  IF k >= 14 THEN 0 ELSE ExpScale(k, ExpSeries(-f, Unit, 0, SeriesTerms))

Pi == 3141593

\* x brought into [-Pi, Pi) by whole turns
Reduce(x) ==
  LET y == x % (2 * Pi)
  IN  IF y >= Pi THEN y - 2 * Pi ELSE y

\* sum of term, -term*x2/((n+1)(n+2)), ... for `left` terms
RECURSIVE TrigSeries(_, _, _, _)
TrigSeries(x2, term, n, left) ==
  IF left = 0 THEN 0
  ELSE term + TrigSeries(x2, (-Mul(term, x2)) \div ((n + 1) * (n + 2)), n + 2, left - 1)

\* np.cos(x)
cos(x) == LET y == Reduce(x) IN TrigSeries(Mul(y, y), Unit, 0, SeriesTerms)

\* np.sin(x)
sin(x) == LET y == Reduce(x) IN TrigSeries(Mul(y, y), y, 1, SeriesTerms)

----------------------------------------------------------------------------
(* Values                                                                  *)

\* Python's None, and a value that is present
None == <<>>
Some(v) == <<v>>

\* np.ones(8) * 0.5, the point get_energy_curve evaluates
FixedParams == [i \in 1..8 |-> 500000]

\* np.zeros(8)
ZeroParams == [i \in 1..8 |-> 0]

\* the initial points optimize is called with
InitialPoints == {FixedParams, ZeroParams}

\* the parameter vectors measure_expectation_value is called with
EvalPoints ==
  InitialPoints
    \cup {<<>>, <<500000>>, <<500000, 250000>>, <<500000, 250000, 1000000>>,
          <<500000, 250000, 1000000, 2000000>>}

\* the bond lengths an instance that optimizes is given: 0.5 and 0.735
LoopBondLengths == {500000, 735000}

\* bond lengths outside the physical range that H2VQE is constructed with:
\* -1.0, 0.0 and 5.0
ConstructorBondLengths == {-1000000, 0, 5000000}

\* the bond lengths scanned and assigned: 0.5, 0.735, 0.97, 1.5 and 5.0
BondLengths == LoopBondLengths \cup {970000, 1500000, 5000000}

\* the largest maxiter passed to optimize
MaxBudget == 2

\* the maxiter values passed to optimize
Budgets == 0..MaxBudget

\* the cap on iteration_count
MaxTrace == 2

\* the longest sequence passed to get_energy_curve
MaxScan == 2

BondLengthSeqs == UNION {[1..n -> BondLengths] : n \in 0..MaxScan}

\* the scans made of an instance that optimizes
ShortScans == {<<>>} \cup {<<r>> : r \in LoopBondLengths}

\* the longest parameter vector passed to ansatz_circuit
MaxParams == 12

\* np.array([0.1, 0.2, ...]) of n values
RampParams(n) == [i \in 1..n |-> i * 100000]

\* the parameter vectors ansatz_circuit is called with
CircuitParams == {RampParams(n) : n \in 0..MaxParams} \cup {ZeroParams}

\* the largest num_qubits passed to ansatz_circuit
MaxQubits == 3

\* the num_qubits values passed to ansatz_circuit
Qubits == 0..MaxQubits

----------------------------------------------------------------------------
(* The ansatz circuit: a number of qubits and the gates in the order they  *)
(* were added, each with its qubits and, for a rotation, its angle         *)

\* qc.h(i), qc.cx(i, j), qc.rz(theta, i) and qc.rx(theta, i) as instructions
H(i) == [gate |-> "h", qubits |-> <<i>>, theta |-> None]
CX(i, j) == [gate |-> "cx", qubits |-> <<i, j>>, theta |-> None]
RZ(theta, i) == [gate |-> "rz", qubits |-> <<i>>, theta |-> Some(theta)]
RX(theta, i) == [gate |-> "rx", qubits |-> <<i>>, theta |-> Some(theta)]

\* one parameterized layer of ansatz_circuit: the loop over the qubits from
\* i on, with the gates qc so far and param_idx (0-based, as in the source)
RECURSIVE rotation_layer(_, _, _, _, _)
rotation_layer(qc, params, param_idx, i, num_qubits) ==
  IF i >= num_qubits THEN [qc |-> qc, param_idx |-> param_idx]
  ELSE LET has_rz == param_idx < Len(params)
           qc1    == IF has_rz THEN Append(qc, RZ(params[param_idx + 1], i))
                     ELSE qc
           idx1   == IF has_rz THEN param_idx + 1 ELSE param_idx
           has_rx == idx1 < Len(params)
           qc2    == IF has_rx THEN Append(qc1, RX(params[idx1 + 1], i))
                     ELSE qc1
           idx2   == IF has_rx THEN idx1 + 1 ELSE idx1
       IN  rotation_layer(qc2, params, idx2, i + 1, num_qubits)

\* ansatz_circuit whose second layer starts again at the first parameter
ansatz_circuit_reusing(params, num_qubits) ==
  LET superposition == [k \in 1..num_qubits |-> H(k - 1)]
      layer1 == rotation_layer(superposition, params, 0, 0, num_qubits)
      entangled == layer1.qc \o [k \in 1..(num_qubits - 1) |-> CX(k - 1, k)]
      layer2 == rotation_layer(entangled, params, 0, 0, num_qubits)
  IN  [num_qubits |-> num_qubits, data |-> layer2.qc]

\* H2VQE.ansatz_circuit(params, num_qubits)
ansatz_circuit(params, num_qubits) ==
  LET superposition == [k \in 1..num_qubits |-> H(k - 1)]
      layer1 == rotation_layer(superposition, params, 0, 0, num_qubits)
      entangled == layer1.qc \o [k \in 1..(num_qubits - 1) |-> CX(k - 1, k)]
      layer2 == rotation_layer(entangled, params, layer1.param_idx, 0,
                               num_qubits)
  IN  [num_qubits |-> num_qubits, data |-> layer2.qc]

----------------------------------------------------------------------------
(* The Hamiltonian and the energy                                          *)

\* the II coefficient, -1.0523732
h_ii == -1052373

\* _calculate_hamiltonian_coefficients with the Gaussians centred at 0
\* instead of the equilibrium bond length 0.735
_calculate_hamiltonian_coefficients_uncentred(r) ==
  LET d2   == Mul(r, r)
      h_zz == Mul(397937, exp(Mul(-100000, d2)))
      h_zi == Mul(Mul(-397937, 500000), exp(Mul(-50000, d2)))
  IN  [II |-> h_ii, ZZ |-> h_zz, ZI |-> h_zi, IZ |-> h_zi]

\* H2VQE._calculate_hamiltonian_coefficients, with self.bond_length = r
_calculate_hamiltonian_coefficients(r) ==
  LET d2   == Mul(r - 735000, r - 735000)
      h_zz == Mul(397937, exp(Mul(-100000, d2)))
      h_zi == Mul(Mul(-397937, 500000), exp(Mul(-50000, d2)))
  IN  [II |-> h_ii, ZZ |-> h_zz, ZI |-> h_zi, IZ |-> h_zi]

\* get_h2_hamiltonian_simplified with 'IZ' copied from the ZZ coefficient
get_h2_hamiltonian_simplified_miscopied(r) ==
  LET h_coeff == _calculate_hamiltonian_coefficients(r)
  IN  [II |-> h_coeff.II, ZZ |-> h_coeff.ZZ, ZI |-> h_coeff.ZI, IZ |-> h_coeff.ZZ]

\* H2VQE.get_h2_hamiltonian_simplified, with self.bond_length = r
get_h2_hamiltonian_simplified(r) ==
  LET h_coeff == _calculate_hamiltonian_coefficients(r)
  IN  [II |-> h_coeff.II, ZZ |-> h_coeff.ZZ, ZI |-> h_coeff.ZI, IZ |-> h_coeff.IZ]

\* np.sum(params)
RECURSIVE param_sum(_)
param_sum(params) ==
  IF params = <<>> THEN 0 ELSE Head(params) + param_sum(Tail(params))

\* np.prod(params)
RECURSIVE prod(_)
prod(params) ==
  IF params = <<>> THEN Unit ELSE Mul(Head(params), prod(Tail(params)))

\* param_prod without its length test: np.prod(params[:4]) of any vector
param_prod_unguarded(params) ==
  prod(SubSeq(params, 1, IF Len(params) < 4 THEN Len(params) ELSE 4))

\* np.prod(params[:4]) if len(params) >= 4 else 0.1
param_prod(params) ==
  IF Len(params) >= 4 THEN prod(SubSeq(params, 1, 4)) ELSE 100000

\* 0.3 * np.cos(param_prod) * np.sin(param_sum)
zz_exp(params) ==
  Mul(Mul(300000, cos(param_prod(params))), sin(param_sum(params)))

\* zi_exp with 0.2, the factor of the other branch, as its fallback
zi_exp_wrong_fallback(params) ==
  IF Len(params) > 0 THEN Mul(200000, cos(params[1])) ELSE 200000

\* 0.2 * np.cos(params[0]) if len(params) > 0 else 0.1
zi_exp(params) ==
  IF Len(params) > 0 THEN Mul(200000, cos(params[1])) ELSE 100000

\* 0.2 * np.sin(params[1]) if len(params) > 1 else 0.1
iz_exp(params) ==
  IF Len(params) > 1 THEN Mul(200000, sin(params[2])) ELSE 100000

\* np.sum(params * np.arange(1, len(params)+1)), i the weight of the head
RECURSIVE weighted_sum(_, _)
weighted_sum(params, i) ==
  IF params = <<>> THEN 0
  ELSE Head(params) * i + weighted_sum(Tail(params), i + 1)

\* 0.001 * np.sin(np.sum(params * np.arange(1, len(params)+1)))
noise(params) == Mul(1000, sin(weighted_sum(params, 1)))

\* the body of H2VQE.measure_expectation_value(params), with
\* self.bond_length = r
expectation_value(params, r) ==
  LET h_dict == get_h2_hamiltonian_simplified(r)
  IN  h_dict.II
      + Mul(h_dict.ZZ, zz_exp(params))
      + Mul(h_dict.ZI, zi_exp(params))
      + Mul(h_dict.IZ, iz_exp(params))
      + noise(params)

\* expectation_value tabulated once over the points and bond lengths in use
EnergyTable ==
  [a \in EvalPoints \X (BondLengths \cup ConstructorBondLengths) |->
     expectation_value(a[1], a[2])] @@ <<>>

\* H2VQE.measure_expectation_value(params), with self.bond_length = r
measure_expectation_value(params, r) == EnergyTable[<<params, r>>]

----------------------------------------------------------------------------
(* The H2VQE instance, the optimize call in progress, and the last call    *)

VARIABLES
  bond_length,      \* self.bond_length
  history,          \* self.history: three parallel lists
  optimal_energy,   \* self.optimal_energy: None or Some(energy)
  optimal_params,   \* self.optimal_params: None or Some(parameters)
  iteration_count,  \* self.iteration_count
  state,            \* where the optimisation loop is
  nfev,             \* objective evaluations minimize has made in this call
  result,           \* None, or Some of minimize's OptimizeResult (x, fun)
  ret               \* the last call of a method: what it was given and gave

vars == <<bond_length, history, optimal_energy, optimal_params,
          iteration_count, state, nfev, result, ret>>

instance == <<bond_length, history, optimal_energy, optimal_params,
              iteration_count>>

\* the ways an optimize call ends: two by return of a successful or
\* budget-limited minimisation, one by return of a minimisation that
\* reports failure, one by an exception
Returned == {"Converged", "IterationLimitReached", "FailureReported"}
Terminal == Returned \cup {"Raised"}

\* H2VQE.__init__(bond_length)
Init ==
  /\ bond_length \in LoopBondLengths
  /\ history = [energies |-> <<>>, params |-> <<>>, iterations |-> <<>>]
  /\ optimal_energy = None
  /\ optimal_params = None
  /\ iteration_count = 0
  /\ state = "Idle"
  /\ nfev = 0
  /\ result = None
  /\ ret = [op |-> "__init__", arg |-> <<>>, maxiter |-> 0, value |-> None,
            error |-> ""]

\* where an exception can surface inside callback: in the evaluation of
\* line 164 or in xk.copy() of line 166
RaisePoints == {"line164", "line166"}

\* callback that evaluates with the coefficients of the default bond length
\* 0.735, whatever self.bond_length is
callback_default_coefficients(xk, raises) ==
  /\ iteration_count' = iteration_count + 1
  /\ history' =
       [energies |->
          IF raises = "line164" THEN history.energies
          ELSE Append(history.energies,
                      measure_expectation_value(xk, 735000)),
        params |->
          IF raises \in {"line164", "line166"} THEN history.params
          ELSE Append(history.params, xk),
        iterations |->
          IF raises \in RaisePoints THEN history.iterations
          ELSE Append(history.iterations, iteration_count')]

\* H2VQE.callback(xk); raises = "no" when it runs to its end
callback(xk, raises) ==
  /\ iteration_count' = iteration_count + 1
  /\ history' =
       [energies |->
          IF raises = "line164" THEN history.energies
          ELSE Append(history.energies,
                      measure_expectation_value(xk, bond_length)),
        params |->
          IF raises \in {"line164", "line166"} THEN history.params
          ELSE Append(history.params, xk),
        iterations |->
          IF raises \in RaisePoints THEN history.iterations
          ELSE Append(history.iterations, iteration_count')]

\* optimize that puts the default bond length back before it starts
optimize_default_bond_length(initial_params, mi) ==
  /\ state # "Running"
  /\ \E x0 \in (IF initial_params = None THEN InitialPoints
                ELSE {initial_params[1]}) :
       ret' = [op |-> "optimize", arg |-> x0, maxiter |-> mi, value |-> None,
               error |-> ""]
  /\ state' = "Running"
  /\ nfev' = 0
  /\ result' = None
  /\ bond_length' = 735000
  /\ UNCHANGED <<history, optimal_energy, optimal_params, iteration_count>>

\* optimize that starts each run with an empty trace and a counter of 0
optimize_resetting(initial_params, mi) ==
  /\ state # "Running"
  /\ \E x0 \in (IF initial_params = None THEN InitialPoints
                ELSE {initial_params[1]}) :
       ret' = [op |-> "optimize", arg |-> x0, maxiter |-> mi, value |-> None,
               error |-> ""]
  /\ state' = "Running"
  /\ nfev' = 0
  /\ result' = None
  /\ history' = [energies |-> <<>>, params |-> <<>>, iterations |-> <<>>]
  /\ iteration_count' = 0
  /\ UNCHANGED <<bond_length, optimal_energy, optimal_params>>

\* optimize that takes the initial point as optimal_params before minimize
\* has run
optimize_presetting(initial_params, mi) ==
  /\ state # "Running"
  /\ \E x0 \in (IF initial_params = None THEN InitialPoints
                ELSE {initial_params[1]}) :
       /\ ret' = [op |-> "optimize", arg |-> x0, maxiter |-> mi,
                  value |-> None, error |-> ""]
       /\ optimal_params' = Some(x0)
  /\ state' = "Running"
  /\ nfev' = 0
  /\ result' = None
  /\ UNCHANGED <<bond_length, history, optimal_energy, iteration_count>>

\* H2VQE.optimize(initial_params, maxiter) up to the call of minimize;
\* initial_params is None or Some(point)
optimize(initial_params, mi) ==
  /\ state # "Running"
  /\ \E x0 \in (IF initial_params = None THEN InitialPoints
                ELSE {initial_params[1]}) :
       ret' = [op |-> "optimize", arg |-> x0, maxiter |-> mi, value |-> None,
               error |-> ""]
  /\ state' = "Running"
  /\ nfev' = 0
  /\ result' = None
  /\ UNCHANGED instance

\* minimize evaluates the objective at one more point p (the initial point
\* first), may take it as its best point, and may report it to callback
minimize_step(p, adopt, cb) ==
  /\ state = "Running"
  /\ nfev = 0 \/ nfev < ret.maxiter
  /\ IF nfev = 0 THEN p = ret.arg ELSE Len(p) = Len(ret.arg)
  /\ result' = IF cb \in RaisePoints THEN None
               ELSE IF nfev = 0 \/ adopt
               THEN Some([x |-> p, fun |-> measure_expectation_value(p, bond_length)])
               ELSE result
  /\ IF cb = "skip"
     THEN UNCHANGED <<iteration_count, history>>
     ELSE iteration_count < MaxTrace /\ callback(p, cb)
  /\ IF cb \in RaisePoints
     THEN state' = "Raised" /\ ret' = [ret EXCEPT !.error = "CallbackError"]
     ELSE UNCHANGED <<state, ret>>
  /\ nfev' = IF cb \in RaisePoints THEN 0 ELSE nfev + 1
  /\ UNCHANGED <<bond_length, optimal_energy, optimal_params>>

\* optimize_result reading the last record of the trace, when there is one
optimize_result_from_trace(res) ==
  IF history.energies = <<>> \/ history.params = <<>>
  THEN [optimal_energy |-> res.fun, optimal_params |-> res.x,
        returned |-> <<res.fun, res.x>>]
  ELSE LET energy == history.energies[Len(history.energies)]
           params == history.params[Len(history.params)]
       IN  [optimal_energy |-> energy, optimal_params |-> params,
            returned |-> <<energy, params>>]

\* what optimize stores and returns once minimize has returned res
optimize_result(res) ==
  [optimal_energy |-> res.fun, optimal_params |-> res.x,
   returned |-> <<res.fun, res.x>>]

\* minimize returns its result, and optimize stores and returns it
minimize_return(status) ==
  /\ state = "Running"
  /\ nfev >= 1
  /\ status \in Returned
  /\ status = "IterationLimitReached" => nfev >= ret.maxiter
  /\ LET out == optimize_result(result[1])
     IN  /\ optimal_energy' = Some(out.optimal_energy)
         /\ optimal_params' = Some(out.optimal_params)
         /\ ret' = [ret EXCEPT !.value = out.returned]
  /\ state' = status
  /\ nfev' = 0
  /\ UNCHANGED <<bond_length, history, iteration_count, result>>

\* minimize_raise with the exception caught in optimize and minimize called
\* again from the initial point
minimize_raise_retried ==
  /\ state = "Running"
  /\ nfev >= 1
  /\ nfev' = 0
  /\ result' = None
  /\ UNCHANGED <<instance, state, ret>>

\* minimize raises, and the exception leaves optimize
minimize_raise ==
  /\ state = "Running"
  /\ state' = "Raised"
  /\ ret' = [ret EXCEPT !.error = "OptimizerFailure"]
  /\ nfev' = 0
  /\ result' = None
  /\ UNCHANGED instance

\* energy_curve_loop that leaves self.bond_length as it found it
RECURSIVE energy_curve_loop_restoring(_, _, _)
energy_curve_loop_restoring(bond_lengths, r, energies) ==
  IF bond_lengths = <<>> THEN [bond_length |-> r, energies |-> energies]
  ELSE LET r1 == Head(bond_lengths)
           energy == measure_expectation_value(FixedParams, r1)
       IN  energy_curve_loop_restoring(Tail(bond_lengths), r, Append(energies, energy))

\* energy_curve_loop that evaluates before it assigns self.bond_length
RECURSIVE energy_curve_loop_stale(_, _, _)
energy_curve_loop_stale(bond_lengths, r, energies) ==
  IF bond_lengths = <<>> THEN [bond_length |-> r, energies |-> energies]
  ELSE LET r1 == Head(bond_lengths)
           energy == measure_expectation_value(FixedParams, r)
       IN  energy_curve_loop_stale(Tail(bond_lengths), r1, Append(energies, energy))

\* the loop of get_energy_curve over the bond lengths left, from bond
\* length r and the energies so far
RECURSIVE energy_curve_loop(_, _, _)
energy_curve_loop(bond_lengths, r, energies) ==
  IF bond_lengths = <<>> THEN [bond_length |-> r, energies |-> energies]
  ELSE LET r1 == Head(bond_lengths)
           energy == measure_expectation_value(FixedParams, r1)
       IN  energy_curve_loop(Tail(bond_lengths), r1, Append(energies, energy))

\* H2VQE.get_energy_curve(bond_lengths)
get_energy_curve(bond_lengths) ==
  /\ state # "Running"
  /\ LET out == energy_curve_loop(bond_lengths, bond_length, <<>>)
     IN  /\ bond_length' = out.bond_length
         /\ ret' = [op |-> "get_energy_curve", arg |-> bond_lengths,
                    maxiter |-> 0, value |-> <<bond_lengths, out.energies>>,
                    error |-> ""]
  /\ UNCHANGED <<history, optimal_energy, optimal_params, iteration_count,
                 state, nfev, result>>

\* evaluate that keeps the energy it computed in self.optimal_energy
evaluate_storing(params) ==
  /\ state # "Running"
  /\ ret' = [op |-> "measure_expectation_value", arg |-> params,
             maxiter |-> 0,
             value |-> Some(measure_expectation_value(params, bond_length)),
             error |-> ""]
  /\ optimal_energy' = ret'.value
  /\ UNCHANGED <<bond_length, history, optimal_params, iteration_count,
                 state, nfev, result>>

\* a call of H2VQE.measure_expectation_value(params) from outside
evaluate(params) ==
  /\ state # "Running"
  /\ ret' = [op |-> "measure_expectation_value", arg |-> params,
             maxiter |-> 0,
             value |-> Some(measure_expectation_value(params, bond_length)),
             error |-> ""]
  /\ UNCHANGED <<instance, state, nfev, result>>

\* a call of H2VQE.callback(xk) from outside
callback_call(xk, raises) ==
  /\ state # "Running"
  /\ iteration_count < MaxTrace
  /\ callback(xk, raises)
  /\ ret' = [op |-> "callback", arg |-> xk, maxiter |-> 0, value |-> None,
             error |-> IF raises \in RaisePoints THEN "CallbackError" ELSE ""]
  /\ UNCHANGED <<bond_length, optimal_energy, optimal_params, state, nfev,
                 result>>

\* H2VQE.get_history(): a new dict under the three keys, whose values are
\* the lists of self.history themselves
get_history ==
  /\ state # "Running"
  /\ ret' = [op |-> "get_history", arg |-> <<>>, maxiter |-> 0,
             value |-> <<"energies", "params", "iterations">>, error |-> ""]
  /\ UNCHANGED <<instance, state, nfev, result>>

\* vqe.bond_length = r, assigned from outside
set_bond_length(r) ==
  /\ state # "Running"
  /\ bond_length' = r
  /\ UNCHANGED <<history, optimal_energy, optimal_params, iteration_count,
                 state, nfev, result, ret>>

Next ==
  \/ \E initial_params \in {None} \cup {Some(x) : x \in InitialPoints},
        mi \in Budgets : optimize(initial_params, mi)
  \/ \E p \in InitialPoints, adopt \in BOOLEAN,
        cb \in {"skip", "no"} \cup RaisePoints : minimize_step(p, adopt, cb)
  \/ \E status \in Returned : minimize_return(status)
  \/ minimize_raise
  \/ \E bond_lengths \in ShortScans : get_energy_curve(bond_lengths)
  \/ \E params \in {FixedParams} : evaluate(params)
  \/ \E xk \in {FixedParams}, raises \in {"no"} \cup RaisePoints :
       callback_call(xk, raises)
  \/ \E r \in LoopBondLengths : set_bond_length(r)
  \/ get_history

Spec == Init /\ [][Next]_vars

\* minimize runs in the calling thread until it returns or raises
Minimizer ==
  \/ \E p \in InitialPoints, adopt \in BOOLEAN,
        cb \in {"skip", "no"} \cup RaisePoints : minimize_step(p, adopt, cb)
  \/ \E status \in Returned : minimize_return(status)
  \/ minimize_raise

FairSpec == Spec /\ WF_vars(Minimizer)

\* an instance that is only evaluated and scanned, constructed with any of
\* the bond lengths
InitEval ==
  /\ bond_length \in BondLengths \cup ConstructorBondLengths
  /\ history = [energies |-> <<>>, params |-> <<>>, iterations |-> <<>>]
  /\ optimal_energy = None
  /\ optimal_params = None
  /\ iteration_count = 0
  /\ state = "Idle"
  /\ nfev = 0
  /\ result = None
  /\ ret = [op |-> "__init__", arg |-> <<>>, maxiter |-> 0, value |-> None,
            error |-> ""]

NextEval ==
  \/ \E bond_lengths \in BondLengthSeqs : get_energy_curve(bond_lengths)
  \/ \E params \in EvalPoints : evaluate(params)
  \/ \E r \in BondLengths : set_bond_length(r)

EvalSpec == InitEval /\ [][NextEval]_vars

\* a call of H2VQE.ansatz_circuit(params, num_qubits) from outside; it
\* reads and writes nothing of the instance
ansatz_circuit_call(params, num_qubits) ==
  /\ state # "Running"
  /\ ret' = [op |-> "ansatz_circuit", arg |-> <<params, num_qubits>>,
             maxiter |-> 0, value |-> Some(ansatz_circuit(params, num_qubits)),
             error |-> ""]
  /\ UNCHANGED <<instance, state, nfev, result>>

\* an instance of which only circuits are asked
NextCircuit ==
  \E params \in CircuitParams, num_qubits \in Qubits :
    ansatz_circuit_call(params, num_qubits)

CircuitSpec == Init /\ [][NextCircuit]_vars

\* H2VQE.__init__(r) with r outside the physical range; ret.arg is r
InitAny ==
  /\ \E r \in ConstructorBondLengths :
       /\ bond_length = r
       /\ ret = [op |-> "__init__", arg |-> r, maxiter |-> 0, value |-> None,
                 error |-> ""]
  /\ history = [energies |-> <<>>, params |-> <<>>, iterations |-> <<>>]
  /\ optimal_energy = None
  /\ optimal_params = None
  /\ iteration_count = 0
  /\ state = "Idle"
  /\ nfev = 0
  /\ result = None

\* the operations of Next on such an instance, without re-assignment of
\* bond_length from outside
NextAny ==
  \/ \E initial_params \in {None, Some(ZeroParams)}, mi \in Budgets :
       optimize(initial_params, mi)
  \/ \E p \in InitialPoints, adopt \in BOOLEAN,
        cb \in {"skip", "no"} \cup RaisePoints : minimize_step(p, adopt, cb)
  \/ \E status \in Returned : minimize_return(status)
  \/ minimize_raise
  \/ \E bond_lengths \in {<<>>, <<0>>} : get_energy_curve(bond_lengths)
  \/ \E params \in {FixedParams} : evaluate(params)
  \/ \E xk \in {FixedParams}, raises \in {"no"} \cup RaisePoints :
       callback_call(xk, raises)
  \/ get_history

AnySpec == InitAny /\ [][NextAny]_vars

----------------------------------------------------------------------------
(* The claims                                                              *)

OneToK(k) == [i \in 1..k |-> i]

\* C1 (as claimed): whenever no optimize call is running,
\* history['iterations'] is exactly 1, 2, ..., k and k is iteration_count.
C1_IterationsAreOneToK ==
  state # "Running" => history.iterations = OneToK(iteration_count)

\* C2 (as claimed): after any run, completed or ended by an exception, the
\* three lists of the trace are each as long as iteration_count.
C2_TraceLengthIsIterationCount ==
  state \in Terminal =>
    /\ Len(history.energies) = iteration_count
    /\ Len(history.params) = iteration_count
    /\ Len(history.iterations) = iteration_count

\* C3: once optimize has returned, optimal_energy and optimal_params are
\* the fun and x of minimize's result, and so is the pair it returned.
C3_ResultIsMinimizerReport ==
  state \in Returned =>
    /\ result # None
    /\ optimal_energy = Some(result[1].fun)
    /\ optimal_params = Some(result[1].x)
    /\ ret.op = "optimize" => ret.value = <<result[1].fun, result[1].x>>

\* C3: a completed run whose returned energy is above the energy of the last
\* trace record
C3_Witness ==
  /\ state \in Returned
  /\ ret.op = "optimize"
  /\ history.energies # <<>>
  /\ ret.value[1] > history.energies[Len(history.energies)]
  /\ optimal_energy = Some(ret.value[1])

\* C4 (as claimed): an optimize call with maxiter > 0 is running or has ended
\* Converged or IterationLimitReached; a run ends in no other way.
C4_NoOtherTerminalState ==
  (ret.op = "optimize" /\ ret.maxiter > 0) =>
    state \in {"Running", "Converged", "IterationLimitReached"}

\* C4 (amended): every optimize call with maxiter > 0 that is running
\* eventually ends, by minimize returning (converged, budget exhausted or
\* failure reported) or by an exception reaching the caller.
C4_RunTerminates ==
  (state = "Running" /\ ret.maxiter > 0) ~> (state \in Terminal)

\* C4: a run with maxiter > 0 that ended by an exception
C4_Witness ==
  ret.op = "optimize" /\ ret.maxiter > 0 /\ state = "Raised"

\* C5: no step of an optimize call, from its start through every evaluation
\* and callback to its end, changes bond_length.
C5_OptimizeKeepsBondLength ==
  [][(state = "Running" \/ state' = "Running") => bond_length' = bond_length]_vars

\* C5: a completed run during which callback recorded two iterations
C5_Witness ==
  /\ state \in Returned
  /\ ret.op = "optimize"
  /\ Len(history.iterations) >= 2

\* C6: get_energy_curve(bond_lengths) leaves bond_length at the last element
\* of a non-empty bond_lengths, and unchanged for the empty sequence.
C6_ScanLeavesLastBondLength ==
  [][\A bond_lengths \in BondLengthSeqs :
       get_energy_curve(bond_lengths) =>
         bond_length' = IF bond_lengths = <<>> THEN bond_length
                        ELSE bond_lengths[Len(bond_lengths)]]_vars

\* C6: a scan of two different bond lengths has left the instance at the
\* second
C6_Witness ==
  /\ ret.op = "get_energy_curve"
  /\ Len(ret.arg) >= 2
  /\ ret.arg[1] # ret.arg[Len(ret.arg)]
  /\ bond_length = ret.arg[Len(ret.arg)]

\* C7: get_energy_curve(bond_lengths) returns bond_lengths and as many
\* energies, the i-th the energy of the eight 0.5 values under the
\* Hamiltonian coefficients of bond_lengths[i].
C7_ScanShape ==
  ret.op = "get_energy_curve" =>
    /\ ret.value[1] = ret.arg
    /\ Len(ret.value[2]) = Len(ret.arg)
    /\ \A i \in 1..Len(ret.arg) :
         ret.value[2][i] = expectation_value(FixedParams, ret.arg[i])

\* C7: a scan of two bond lengths with different energies, the second then
\* the first of 0.5 and 0.735
C7_Witness ==
  /\ ret.op = "get_energy_curve"
  /\ ret.arg = <<735000, 500000>>
  /\ Len(ret.value[2]) = 2
  /\ ret.value[2][1] < ret.value[2][2]

\* C8 (as claimed): an optimize call with maxiter <= 0 has raised InvalidInput
\* without minimize evaluating anything.
C8_NonPositiveMaxiterRejected ==
  (ret.op = "optimize" /\ ret.maxiter <= 0) =>
    /\ state = "Raised"
    /\ ret.error = "InvalidInput"
    /\ nfev = 0
    /\ result = None

\* C9 (as claimed): measure_expectation_value of the empty vector raises
\* InvalidInput and returns no energy.
C9_EmptyVectorRejected ==
  (ret.op = "measure_expectation_value" /\ ret.arg = <<>>) =>
    (ret.error = "InvalidInput" /\ ret.value = None)

\* C9 (amended): measure_expectation_value of the empty vector raises
\* nothing and returns II + 0.1 * ZI + 0.1 * IZ of the current bond length.
C9_EmptyVectorGivesFallbackEnergy ==
  [][evaluate(<<>>) =>
       LET h == _calculate_hamiltonian_coefficients(bond_length)
       IN  /\ ret'.error = ""
           /\ ret'.value = Some(h.II + Mul(h.ZI, 100000) + Mul(h.IZ, 100000))]_vars

\* C9: the empty vector has been evaluated, away from the default bond length
C9_Witness ==
  /\ ret.op = "measure_expectation_value"
  /\ ret.arg = <<>>
  /\ ret.error = ""
  /\ ret.value # None
  /\ bond_length = 5000000

\* C10 (as claimed): when minimize raises or reports a failure, optimize
\* returns nothing and optimal_energy, optimal_params and the trace stay as
\* they were.
C10_MinimizerFailureLeavesNoResult ==
  [][(/\ state = "Running"
      /\ \/ state' = "FailureReported"
         \/ state' = "Raised" /\ ret'.error = "OptimizerFailure")
     => /\ ret'.value = None
        /\ optimal_energy' = optimal_energy
        /\ optimal_params' = optimal_params
        /\ history' = history]_vars

C12_LengthBranches ==
  [][\A params \in EvalPoints :
       evaluate(params) =>
         LET h == _calculate_hamiltonian_coefficients(bond_length)
             n == Len(params)
             paramProd == IF n >= 4 THEN prod(SubSeq(params, 1, 4)) ELSE 100000
             zi == IF n > 0 THEN Mul(200000, cos(params[1])) ELSE 100000
             iz == IF n > 1 THEN Mul(200000, sin(params[2])) ELSE 100000
             zz == Mul(Mul(300000, cos(paramProd)), sin(param_sum(params)))
         IN  /\ ret'.error = ""
             /\ ret'.value = Some(h.II + Mul(h.ZZ, zz) + Mul(h.ZI, zi)
                                  + Mul(h.IZ, iz) + noise(params))]_vars

\* C12: a vector of one parameter has been evaluated without an error
C12_Witness ==
  /\ ret.op = "measure_expectation_value"
  /\ Len(ret.arg) = 1
  /\ ret.error = ""
  /\ ret.value # None

C14_NoResultBeforeCompletedRun ==
  /\ ret.op = "__init__"
  /\ ret.error = ""
  /\ bond_length = ret.arg
  /\ optimal_energy = None
  /\ optimal_params = None
  /\ iteration_count = 0
  /\ history = [energies |-> <<>>, params |-> <<>>, iterations |-> <<>>]
  /\ [][((optimal_energy = None \/ optimal_params = None)
          /\ (optimal_energy' # None \/ optimal_params' # None))
        => (state = "Running" /\ state' \in Returned)]_vars

\* C14: an instance constructed with a negative bond length has recorded
\* callbacks and seen a run end by an exception, and still has no result
C14_Witness ==
  /\ bond_length < 0
  /\ state = "Raised"
  /\ ret.op = "optimize"
  /\ history.energies # <<>>
  /\ iteration_count = MaxTrace
  /\ optimal_energy = None
  /\ optimal_params = None

\* C15: at every bond length, _calculate_hamiltonian_coefficients and
\* get_h2_hamiltonian_simplified give exactly the four labels II, ZZ, ZI and
\* IZ, the ZI value equal to the IZ value, and II the constant -1.0523732.
C15_CoefficientLabels ==
  LET h_coeff == _calculate_hamiltonian_coefficients(bond_length)
      h_dict  == get_h2_hamiltonian_simplified(bond_length)
  IN  /\ DOMAIN h_coeff = {"II", "ZZ", "ZI", "IZ"}
      /\ DOMAIN h_dict = {"II", "ZZ", "ZI", "IZ"}
      /\ h_coeff.ZI = h_coeff.IZ
      /\ h_dict.ZI = h_dict.IZ
      /\ h_coeff.II = -1052373
      /\ h_dict.II = -1052373

\* C15: an energy has been evaluated at bond length 5.0, where ZZ and ZI
\* are not what they are at 0.735 and ZI is not ZZ
C15_Witness ==
  /\ ret.op = "measure_expectation_value"
  /\ bond_length = 5000000
  /\ get_h2_hamiltonian_simplified(bond_length).ZZ
       # get_h2_hamiltonian_simplified(735000).ZZ
  /\ get_h2_hamiltonian_simplified(bond_length).ZI
       # get_h2_hamiltonian_simplified(735000).ZI
  /\ get_h2_hamiltonian_simplified(bond_length).ZI
       # get_h2_hamiltonian_simplified(bond_length).ZZ

\* s is a prefix of t
IsPrefix(s, t) == Len(s) <= Len(t) /\ SubSeq(t, 1, Len(s)) = s

\* C16: every step of every operation leaves each list of the trace a
\* prefix of what it becomes and the iteration counter no smaller; a step
\* that appends an iteration appends the counter's old value plus one, and
\* the start of an optimize call changes neither the trace nor the counter.
C16_TraceIsAppendOnly ==
  [][/\ IsPrefix(history.energies, history'.energies)
     /\ IsPrefix(history.params, history'.params)
     /\ IsPrefix(history.iterations, history'.iterations)
     /\ iteration_count' >= iteration_count
     /\ history'.iterations # history.iterations =>
          history'.iterations = Append(history.iterations, iteration_count + 1)
     /\ (state # "Running" /\ state' = "Running") =>
          (history' = history /\ iteration_count' = iteration_count)]_vars

\* C16: a run that started on an instance holding a result and the record
\* of an earlier run has made one evaluation and appended its record as
\* iteration 2
C16_Witness ==
  /\ state = "Running"
  /\ nfev = 1
  /\ optimal_energy # None
  /\ history.params = <<ZeroParams, ZeroParams>>
  /\ history.iterations = <<1, 2>>
  /\ iteration_count = 2

\* C17 (as claimed): every energy of the trace has a parameter record at
\* its index and is the energy of that record at a bond length the instance
\* has had.
C17_RecordsSelfConsistent ==
  \A j \in 1..Len(history.energies) :
    /\ j <= Len(history.params)
    /\ \E r \in LoopBondLengths :
         history.energies[j] = measure_expectation_value(history.params[j], r)

\* C18: every evaluation uses the bond length current at that call: a call
\* of measure_expectation_value returns the energy at the current
\* bond_length, a callback that completes its record stores the energy of
\* the recorded point at the current bond_length, and the result a running
\* minimisation takes is the energy of its point at the current bond_length,
\* also after bond_length was re-assigned or left changed by a scan.
C18_CurrentBondLengthUsed ==
  [][/\ \A params \in EvalPoints :
          evaluate(params) =>
            ret'.value = Some(measure_expectation_value(params, bond_length))
     /\ Len(history'.params) > Len(history.params) =>
          history'.energies[Len(history'.energies)] =
            measure_expectation_value(history'.params[Len(history'.params)],
                                      bond_length)
     /\ (state = "Running" /\ result' # None /\ result' # result) =>
          result'[1].fun = measure_expectation_value(result'[1].x, bond_length)]_vars

\* C18: two callbacks have recorded the same point with different energies,
\* the second after bond_length had changed, and a run has then returned the
\* energy of its point at the bond length of the second
C18_Witness ==
  /\ state \in Returned
  /\ Len(history.params) = 2
  /\ history.params[1] = history.params[2]
  /\ history.energies[1] # history.energies[2]
  /\ history.energies[2] = measure_expectation_value(history.params[2], bond_length)
  /\ optimal_energy = Some(measure_expectation_value(optimal_params[1], bond_length))

Min(a, b) == IF a < b THEN a ELSE b

\* C19: ansatz_circuit(params, num_qubits) gives a circuit on num_qubits
\* qubits whose gates are, in order: H on each qubit; the first layer's
\* rotations; CX(i, i+1) for i from 0 to num_qubits - 2; the second layer's
\* rotations.  The k-th rotation of the circuit is RZ for odd k and RX for
\* even k, on the qubit its layer has reached, with angle params[k-1]; there
\* are min(len(params), 4*num_qubits) rotations, of which the first layer
\* has up to 2*num_qubits; with num_qubits = 2 and eight or more parameters
\* eight are used.
C19_AnsatzGateOrder ==
  ret.op = "ansatz_circuit" =>
    LET params == ret.arg[1]
        n      == ret.arg[2]
        qc     == ret.value[1]
        used   == Min(Len(params), 4 * n)
        first  == Min(used, 2 * n)
        pairs  == IF n > 0 THEN n - 1 ELSE 0
        rot(k) == IF k % 2 = 1 THEN RZ(params[k], ((k - 1) \div 2) % n)
                  ELSE RX(params[k], ((k - 1) \div 2) % n)
    IN  /\ ret.error = ""
        /\ qc.num_qubits = n
        /\ Len(qc.data) = n + used + pairs
        /\ \A i \in 1..n : qc.data[i] = H(i - 1)
        /\ \A k \in 1..first : qc.data[n + k] = rot(k)
        /\ \A i \in 1..pairs : qc.data[n + first + i] = CX(i - 1, i)
        /\ \A k \in (first + 1)..used : qc.data[n + pairs + k] = rot(k)
        /\ (n = 2 /\ Len(params) >= 8) =>
             Cardinality({i \in DOMAIN qc.data : qc.data[i].theta # None}) = 8

\* C19: nine parameters on two qubits: eleven gates, the last of them RX on
\* qubit 1 with the eighth parameter, the ninth unused
C19_Witness ==
  /\ ret.op = "ansatz_circuit"
  /\ ret.arg = <<RampParams(9), 2>>
  /\ Len(ret.value[1].data) = 11
  /\ ret.value[1].data[7] = CX(0, 1)
  /\ ret.value[1].data[11] = RX(800000, 1)
====
